---- MODULE Spec2Model ----
(***************************************************************************)
(* uavsim map bridge (src/uavsim/map.py).                                  *)
(*                                                                         *)
(* Two threads share two deque(maxlen=1) objects:                          *)
(*   - the main thread runs join_to_router: a retry loop around           *)
(*     ApplicationRunner.run, which drives one MapComponent session on an  *)
(*     asyncio event loop (onJoin, on_sim_telemetry, pass_outgoing_cmd);   *)
(*   - the UI thread runs the Qt slots of Locator and PIDManager.          *)
(* deque.append and deque.pop are atomic in CPython, so each is one step;  *)
(* the steps of the two threads interleave freely.                         *)
(*                                                                         *)
(* runner.run belongs to a library: how and when it ends, and whether the  *)
(* event loop goes on running the session's coroutines once the connection *)
(* is lost, is left open: each outcome is a step the model can take.       *)
(***************************************************************************)
EXTENDS Integers, Sequences, FiniteSets, TLC

VARIABLES
    queue_to_ui,   \* deque(maxlen=1): telemetry samples, session -> UI
    queue_out,     \* deque(maxlen=1): commands, UI -> session
    supPc,         \* join_to_router: "while" | "body" | "run" | "done" | "crashed"
    rerun,         \* join_to_router's local flag
    sessPc,        \* position of the session's event loop thread inside runner.run
    is_running,    \* MapComponent.is_running of the current session object
    connected,     \* the transport of the current session object is open
    cur,           \* pass_outgoing_cmd's locals (cmd, arguments): <<>> or <<item>>
    locator,       \* Locator.lat / Locator.lng
    pid_manager,   \* PIDManager.kp / ki / kd
    attempts,      \* history: number of calls of runner.run
    nOSError,      \* history: number of calls of runner.run that raised OSError
    lastEnd,       \* history: how the last runner.run ended
    nTel,          \* history: number of appends to queue_to_ui (object identities)
    nCmd,          \* history: number of appends to queue_out (object identities)
    nTaken,        \* history: number of elements popped from each deque
    pending,       \* history: the command in queue_out that was written while no
                   \* session was Active and that no session has met on becoming
                   \* Active (its number; 0: none)
    inv,           \* history: the current / last invocation of pass_outgoing_cmd
    ev             \* history: the last operation and what it gave out

vars == <<queue_to_ui, queue_out, supPc, rerun, sessPc, is_running, connected, cur,
          locator, pid_manager, attempts, nOSError, lastEnd, nTel, nCmd, nTaken,
          pending, inv, ev>>

sessVars == <<supPc, rerun, sessPc, is_running, connected, cur, attempts, nOSError,
              lastEnd>>
uiVars == <<locator, pid_manager>>

-----------------------------------------------------------------------------
(* Bounds of the model *)

MaxAttempts == 2      \* calls of runner.run, with the UI active
MaxRetries == 4       \* calls of runner.run, with the UI idle
MaxTel == 2           \* telemetry samples appended
MaxCmds == 2          \* commands appended

(* Program constants *)

QueueMaxLen == 1      \* deque(maxlen=1)

None == "None"

(* Inputs *)

TelKeys == {"latitude-deg", "longitude-deg", "heading-deg"}
\* (latitude, longitude, heading) of the events the router delivers
TelSamples == {<<1, 2, 3>>, <<3, 1, 2>>}
TelDict(t) == [k \in TelKeys |-> CASE k = "latitude-deg" -> t[1]
                                   [] k = "longitude-deg" -> t[2]
                                   [] OTHER -> t[3]]
\* a telemetry event: a dict with any subset of the three keys
TelMsgs == {[k \in K |-> TelDict(t)[k]] : t \in TelSamples, K \in SUBSET TelKeys}

\* texts the QML side passes to setLocation / setPID / forceLocation
DecStrs == {"1.5"}
\* floats the QML side passes to forcePID
PidArgs == {<<5, 1, 0>>, <<1, 5, 0>>}
\* commands no slot of the UI writes, for the dispatcher taken alone
OtherCmds == {<<"pos", <<1, 2>>>>, <<"pos", <<2, 1>>>>, <<"xyz", <<>>>>}

-----------------------------------------------------------------------------
(* collections.deque(maxlen=QueueMaxLen) *)

\* a put that queues the new value behind the old one
DequeAppendNoDrop(q, x) == Append(q, x)

\* a put that leaves a full deque as it is
DequeAppendKeepOld(q, x) == IF Len(q) >= QueueMaxLen THEN q ELSE Append(q, x)

\* deque.append: on a full deque the leftmost element is discarded
DequeAppend(q, x) ==
    IF Len(q) >= QueueMaxLen
    THEN SubSeq(q, Len(q) - QueueMaxLen + 2, Len(q)) \o <<x>>
    ELSE Append(q, x)

\* a read of the rightmost element that leaves it in the deque
DequePeek(q) ==
    IF Len(q) = 0
    THEN [raised |-> TRUE, val |-> <<>>, rest |-> q]
    ELSE [raised |-> FALSE, val |-> <<q[Len(q)]>>, rest |-> q]

\* deque.pop: IndexError on an empty deque, else removes and returns the rightmost
DequePop(q) ==
    IF Len(q) = 0
    THEN [raised |-> TRUE, val |-> <<>>, rest |-> q]
    ELSE [raised |-> FALSE, val |-> <<q[Len(q)]>>, rest |-> SubSeq(q, 1, Len(q) - 1)]

\* decimal.Decimal(text), in tenths
Decimal(s) == CASE s = "1.5" -> 15
                [] s = "2.5" -> 25
                [] OTHER -> 0

\* what an operation gives out: a Qt signal, a WAMP publish, a log line, an exception
NoOut == [kind |-> "none", name |-> "none", args |-> <<>>]
Signal(name, args) == [kind |-> "signal", name |-> name, args |-> args]
Publish(topic, args) == [kind |-> "publish", name |-> topic, args |-> args]
Log(level) == [kind |-> "log", name |-> level, args |-> <<>>]
Raised(exc) == [kind |-> "exception", name |-> exc, args |-> <<>>]

\* op: the operation; id: the deque element it moved (0: none); out: what it gave out
Event(op, id, out) == [op |-> op, id |-> id, out |-> out]

\* one invocation of pass_outgoing_cmd:
\*   entry: queue_out as its first pop found it; pops: pops made; taken: commands
\*   popped; disp: commands put through the if / elif / else; pubs: its publishes;
\*   writes: appends of the UI thread between its first pop and its return
NewInv == [entry |-> <<>>, pops |-> 0, taken |-> 0, disp |-> 0, pubs |-> <<>>,
           writes |-> 0, done |-> FALSE]
NoInv == [NewInv EXCEPT !.done = TRUE]

-----------------------------------------------------------------------------
Init ==
    /\ queue_to_ui = <<>>
    /\ queue_out = <<>>
    /\ supPc = "while"
    /\ rerun = TRUE
    /\ sessPc = "none"
    /\ is_running = FALSE
    /\ connected = FALSE
    /\ cur = <<>>
    /\ locator = [lat |-> None, lng |-> None]
    /\ pid_manager = [kp |-> None, ki |-> None, kd |-> None]
    /\ attempts = 0
    /\ nOSError = 0
    /\ lastEnd = "none"
    /\ nTel = 0
    /\ nCmd = 0
    /\ nTaken = [tel |-> 0, cmd |-> 0]
    /\ pending = 0
    /\ inv = NoInv
    /\ ev = Event("init", 0, NoOut)

-----------------------------------------------------------------------------
\* the states of the session (spec 4.4), read off the program's position: a session
\* exists from the handshake on, it is Terminated once its transport is gone, and
\* Active once onJoin has set is_running
SessionState ==
    IF supPc = "run"
    THEN (IF sessPc = "connect" THEN "Joining"
          ELSE IF ~connected THEN "Terminated"
          ELSE IF is_running THEN "Active"
          ELSE "Joining")
    ELSE IF supPc = "body" \/ attempts = 0 THEN "Disconnected"
    ELSE "Terminated"

-----------------------------------------------------------------------------
(* The UI thread: Qt slots of Locator and PIDManager *)

\* Locator.set_location(lat, lng)
set_location(lat, lng) ==
    LET r == DequePop(queue_to_ui) IN
    /\ locator' = [lat |-> Decimal(lat), lng |-> Decimal(lng)]
    /\ queue_to_ui' = r.rest
    /\ IF r.raised
       THEN /\ ev' = Event("set_location", 0, NoOut)
            /\ UNCHANGED nTaken
       ELSE /\ ev' = Event("set_location", r.val[1].id, Signal("locationUpdate", r.val[1].val))
            /\ nTaken' = [nTaken EXCEPT !.tel = @ + 1]
    /\ UNCHANGED <<queue_out, sessVars, pid_manager, nTel, nCmd, pending, inv>>

\* PIDManager.set_pid(kp, ki, kd)
set_pid(kp, ki, kd) ==
    LET r == DequePop(queue_to_ui) IN
    /\ pid_manager' = [kp |-> Decimal(kp), ki |-> Decimal(ki), kd |-> Decimal(kd)]
    /\ queue_to_ui' = r.rest
    /\ IF r.raised
       THEN /\ ev' = Event("set_pid", 0, NoOut)
            /\ UNCHANGED nTaken
       ELSE /\ ev' = Event("set_pid", r.val[1].id, Signal("pidUpdate", r.val[1].val))
            /\ nTaken' = [nTaken EXCEPT !.tel = @ + 1]
    /\ UNCHANGED <<queue_out, sessVars, locator, nTel, nCmd, pending, inv>>

\* self.queue_out.append((tag, args)) in a slot of the UI thread
ForceCmd(op, tag, args) ==
    LET item == [cmd |-> tag, args |-> args, id |-> nCmd + 1] IN
    /\ nCmd < MaxCmds
    /\ queue_out' = DequeAppend(queue_out, item)
    /\ nCmd' = nCmd + 1
    /\ pending' = IF SessionState # "Active" THEN nCmd + 1 ELSE 0
    /\ inv' = IF ~inv.done /\ inv.pops > 0 THEN [inv EXCEPT !.writes = @ + 1] ELSE inv
    /\ ev' = Event(op, nCmd + 1, NoOut)
    /\ UNCHANGED <<queue_to_ui, sessVars, uiVars, nTel, nTaken>>

\* Locator.force_location(lat, lng)
force_location(lat, lng) == ForceCmd("force_location", "loc", <<lat, lng>>)

\* PIDManager.force_pid(kp, ki, kd)
force_pid(kp, ki, kd) == ForceCmd("force_pid", "pid", <<kp, ki, kd>>)

SetLocation == \E lat \in DecStrs, lng \in DecStrs : set_location(lat, lng)
SetPid == \E kp \in DecStrs, ki \in DecStrs, kd \in DecStrs : set_pid(kp, ki, kd)
ForceLocation == \E lat \in DecStrs, lng \in DecStrs : force_location(lat, lng)
ForcePid == \E a \in PidArgs : force_pid(a[1], a[2], a[3])
\* an append of a command with another tag, by a producer that is not in map.py
ForceOther == \E c \in OtherCmds : ForceCmd("append", c[1], c[2])

-----------------------------------------------------------------------------
(* The session: MapComponent on the event loop that runner.run drives *)

\* the places where the event loop thread waits and runner.run can end
AwaitPoints == {"connect", "register", "subscribe", "sleep", "failed"}

\* the transport connects and the handshake succeeds: MapComponent(config), onJoin
\* starts and waits for register
ConnectOk ==
    /\ supPc = "run" /\ sessPc = "connect"
    /\ sessPc' = "register"
    /\ is_running' = FALSE
    /\ connected' = TRUE
    /\ ev' = Event("__init__", 0, NoOut)
    /\ UNCHANGED <<queue_to_ui, queue_out, supPc, rerun, cur, attempts, nOSError,
                   lastEnd, uiVars, nTel, nCmd, pending, nTaken, inv>>

\* an onJoin that goes into its loop once register has returned, without subscribe
RegisterSkipsSubscribe ==
    /\ supPc = "run" /\ sessPc = "register"
    /\ connected
    /\ is_running' = TRUE
    /\ sessPc' = "pop"
    /\ pending' = 0
    /\ inv' = NewInv
    /\ ev' = Event("register", 0, NoOut)
    /\ UNCHANGED <<queue_to_ui, queue_out, supPc, rerun, connected, cur, attempts,
                   nOSError, lastEnd, uiVars, nTel, nCmd, nTaken>>

\* onJoin: await self.register(...) returns
RegisterOk ==
    /\ supPc = "run" /\ sessPc = "register"
    /\ connected
    /\ sessPc' = "subscribe"
    /\ ev' = Event("register", 0, NoOut)
    /\ UNCHANGED <<queue_to_ui, queue_out, supPc, rerun, is_running, connected, cur, attempts,
                   nOSError, lastEnd, uiVars, nTel, nCmd, pending, nTaken, inv>>

\* onJoin: await self.subscribe(...) returns; is_running = True; the first pass of
\* the loop calls pass_outgoing_cmd
SubscribeOk ==
    /\ supPc = "run" /\ sessPc = "subscribe"
    /\ connected
    /\ is_running' = TRUE
    /\ sessPc' = "pop"
    /\ pending' = 0
    /\ inv' = NewInv
    /\ ev' = Event("subscribe", 0, NoOut)
    /\ UNCHANGED <<queue_to_ui, queue_out, supPc, rerun, connected, cur, attempts,
                   nOSError, lastEnd, uiVars, nTel, nCmd, nTaken>>

\* onJoin: await self.register(...) or await self.subscribe(...) raises (the router
\* answers with an error, or the transport is gone): onJoin ends with the exception
\* before is_running = True
SetupFails ==
    /\ supPc = "run" /\ sessPc \in {"register", "subscribe"}
    /\ sessPc' = "failed"
    /\ ev' = Event("setup_fails", 0, Raised(IF connected THEN "ApplicationError"
                                                        ELSE "TransportLost"))
    /\ UNCHANGED <<queue_to_ui, queue_out, supPc, rerun, is_running, connected, cur,
                   attempts, nOSError, lastEnd, uiVars, nTel, nCmd, pending, nTaken, inv>>

\* the connection to the router is lost while runner.run goes on running the event
\* loop: MapComponent has no onLeave / onDisconnect and nothing sets is_running to
\* False, so the tasks of the session go on
TransportLost ==
    /\ supPc = "run" /\ sessPc \in {"register", "subscribe", "sleep", "failed"}
    /\ connected
    /\ connected' = FALSE
    /\ ev' = Event("connection_lost", 0, NoOut)
    /\ UNCHANGED <<queue_to_ui, queue_out, supPc, rerun, sessPc, is_running, cur,
                   attempts, nOSError, lastEnd, uiVars, nTel, nCmd, pending, nTaken, inv>>

\* a loop test that leaves the loop when the flag is set
WakeFlagInverted ==
    /\ supPc = "run" /\ sessPc = "sleep"
    /\ ~is_running
    /\ sessPc' = "pop"
    /\ inv' = NewInv
    /\ ev' = Event("wake", 0, NoOut)
    /\ UNCHANGED <<queue_to_ui, queue_out, supPc, rerun, is_running, connected, cur,
                   attempts, nOSError, lastEnd, uiVars, nTel, nCmd, pending, nTaken>>

\* onJoin: asyncio.sleep(0.1) is over; while self.is_running; pass_outgoing_cmd
Wake ==
    /\ supPc = "run" /\ sessPc = "sleep"
    /\ is_running
    /\ sessPc' = "pop"
    /\ inv' = NewInv
    /\ ev' = Event("wake", 0, NoOut)
    /\ UNCHANGED <<queue_to_ui, queue_out, supPc, rerun, is_running, connected, cur, attempts,
                   nOSError, lastEnd, uiVars, nTel, nCmd, pending, nTaken>>

\* an IndexError that leaves pass_outgoing_cmd and ends the onJoin task
PassOutgoingNoExcept ==
    /\ sessPc' = "failed"
    /\ ev' = Event("pop", 0, Raised("IndexError"))

\* pass_outgoing_cmd: except IndexError: pass; the call returns and onJoin sleeps
PassOutgoingExcept ==
    /\ sessPc' = "sleep"
    /\ ev' = Event("pop", 0, NoOut)

\* pass_outgoing_cmd: cmd, arguments = self.queue_out.pop()
PassOutgoingPop ==
    LET r == DequePop(queue_out)
        seen == IF inv.pops = 0 THEN queue_out ELSE inv.entry IN
    /\ supPc = "run" /\ sessPc = "pop"
    /\ queue_out' = r.rest
    /\ IF r.raised
       THEN /\ PassOutgoingExcept
            /\ cur' = <<>>
            /\ inv' = [inv EXCEPT !.entry = seen, !.pops = @ + 1, !.done = TRUE]
            /\ UNCHANGED <<nTaken, pending>>
       ELSE /\ sessPc' = "dispatch"
            /\ cur' = r.val
            /\ inv' = [inv EXCEPT !.entry = seen, !.pops = @ + 1, !.taken = @ + 1]
            /\ ev' = Event("pop", r.val[1].id, NoOut)
            /\ nTaken' = [nTaken EXCEPT !.cmd = @ + 1]
            /\ pending' = 0
    /\ UNCHANGED <<queue_to_ui, supPc, rerun, is_running, connected, attempts, nOSError,
                   lastEnd, uiVars, nTel, nCmd>>

\* a dispatch with the two topics exchanged
DispatchSwapped(cmd, arguments) ==
    IF cmd = "pos" THEN Publish("map.pid", arguments)
    ELSE IF cmd = "pid" THEN Publish("map.position", arguments)
    ELSE Log("warning")

\* a dispatch that takes every other tag for a position
DispatchNoElse(cmd, arguments) ==
    IF cmd = "pid" THEN Publish("map.pid", arguments)
    ELSE Publish("map.position", arguments)

\* a dispatch that raises on a tag it does not know
DispatchRaises(cmd, arguments) ==
    IF cmd = "pos" THEN Publish("map.position", arguments)
    ELSE IF cmd = "pid" THEN Publish("map.pid", arguments)
    ELSE Raised("ValueError")

\* a dispatch that publishes a payload of its own
DispatchOwnPayload(cmd, arguments) ==
    IF cmd = "pos" THEN Publish("map.position", <<0, 0>>)
    ELSE IF cmd = "pid" THEN Publish("map.pid", <<0, 0, 0>>)
    ELSE Log("warning")

\* pass_outgoing_cmd: the if / elif / else on cmd
Dispatch(cmd, arguments) ==
    IF cmd = "pos" THEN Publish("map.position", arguments)
    ELSE IF cmd = "pid" THEN Publish("map.pid", arguments)
    ELSE Log("warning")

\* self.publish(topic, *arguments): on a session whose transport is gone it raises
\* TransportLost
SessionPublish(out) ==
    IF out.kind = "publish" /\ ~connected THEN Raised("TransportLost") ELSE out

\* pass_outgoing_cmd: the body of the loop after the pop, and back to the pop; an
\* exception of publish is not an IndexError: it leaves pass_outgoing_cmd and onJoin
PassOutgoingDispatch ==
    LET out == SessionPublish(Dispatch(cur[1].cmd, cur[1].args)) IN
    /\ supPc = "run" /\ sessPc = "dispatch"
    /\ sessPc' = IF out.kind = "exception" THEN "failed" ELSE "pop"
    /\ cur' = <<>>
    /\ inv' = [inv EXCEPT !.disp = @ + 1,
                          !.pubs = IF out.kind = "publish" THEN Append(@, out) ELSE @]
    /\ ev' = Event("dispatch", cur[1].id, out)
    /\ UNCHANGED <<queue_to_ui, queue_out, supPc, rerun, is_running, connected, attempts,
                   nOSError, lastEnd, uiVars, nTel, nCmd, pending, nTaken>>

\* a start of the handler in the middle of pass_outgoing_cmd, as on a second thread
TelemetryBeginPreempts ==
    /\ supPc = "run" /\ sessPc \in {"sleep", "dispatch"}
    /\ connected
    /\ sessPc' = "telemetry"
    /\ ev' = Event("event", 0, NoOut)
    /\ UNCHANGED <<queue_to_ui, queue_out, supPc, rerun, is_running, connected, cur,
                   attempts, nOSError, lastEnd, uiVars, nTel, nCmd, pending, nTaken, inv>>

\* a start of the handler that first takes the stale sample out of queue_to_ui
TelemetryBeginTakes ==
    /\ supPc = "run" /\ sessPc = "sleep"
    /\ connected
    /\ sessPc' = "telemetry"
    /\ queue_to_ui' = DequePop(queue_to_ui).rest
    /\ ev' = Event("event", 0, NoOut)
    /\ UNCHANGED <<queue_out, supPc, rerun, is_running, connected, cur, attempts,
                   nOSError, lastEnd, uiVars, nTel, nCmd, pending, nTaken, inv>>

\* the event loop starts the handler of a "sim.telemetry" event while onJoin sleeps
TelemetryBegin ==
    /\ supPc = "run" /\ sessPc = "sleep"
    /\ connected
    /\ sessPc' = "telemetry"
    /\ ev' = Event("event", 0, NoOut)
    /\ UNCHANGED <<queue_to_ui, queue_out, supPc, rerun, is_running, connected, cur, attempts,
                   nOSError, lastEnd, uiVars, nTel, nCmd, pending, nTaken, inv>>

Get(telemetry, key, default) ==
    IF key \in DOMAIN telemetry THEN telemetry[key] ELSE default

\* a tuple with latitude and longitude exchanged
SampleSwapped(telemetry) ==
    <<telemetry["longitude-deg"], telemetry["latitude-deg"], telemetry["heading-deg"]>>

\* on_sim_telemetry: (lat, lng, heading)
Sample(telemetry) ==
    <<telemetry["latitude-deg"], telemetry["longitude-deg"], telemetry["heading-deg"]>>

\* a read of the fields that puts 0 for a missing one
ExtractDefault(telemetry) ==
    [raised |-> FALSE,
     val |-> <<Get(telemetry, "latitude-deg", 0), Get(telemetry, "longitude-deg", 0),
               Get(telemetry, "heading-deg", 0)>>]

\* on_sim_telemetry: the three subscripts; KeyError when a key is missing
Extract(telemetry) ==
    IF TelKeys \subseteq DOMAIN telemetry
    THEN [raised |-> FALSE, val |-> Sample(telemetry)]
    ELSE [raised |-> TRUE, val |-> <<>>]

\* MapComponent.on_sim_telemetry(telemetry)
on_sim_telemetry(telemetry) ==
    LET r == Extract(telemetry) IN
    /\ supPc = "run" /\ sessPc = "telemetry"
    /\ sessPc' = "sleep"
    /\ IF r.raised
       THEN /\ ev' = Event("on_sim_telemetry", 0, Log("error"))
            /\ UNCHANGED <<queue_to_ui, nTel>>
       ELSE /\ nTel < MaxTel
            /\ queue_to_ui' = DequeAppend(queue_to_ui, [val |-> r.val, id |-> nTel + 1])
            /\ nTel' = nTel + 1
            /\ ev' = Event("on_sim_telemetry", nTel + 1, NoOut)
    /\ UNCHANGED <<queue_out, supPc, rerun, is_running, connected, cur, attempts, nOSError,
                   lastEnd, uiVars, nCmd, pending, nTaken, inv>>

OnSimTelemetry == \E telemetry \in TelMsgs : on_sim_telemetry(telemetry)

-----------------------------------------------------------------------------
(* The main thread: join_to_router *)

\* while rerun: rerun = False
LoopTest ==
    /\ supPc = "while"
    /\ IF rerun THEN rerun' = FALSE /\ supPc' = "body"
                ELSE rerun' = rerun /\ supPc' = "done"
    /\ ev' = Event("while", 0, NoOut)
    /\ UNCHANGED <<queue_to_ui, queue_out, sessPc, is_running, connected, cur, attempts,
                   nOSError, lastEnd, uiVars, nTel, nCmd, pending, nTaken, inv>>

\* try: runner.run(component_class), at most `bound` times
Run(bound) ==
    /\ supPc = "body"
    /\ attempts < bound
    /\ supPc' = "run"
    /\ sessPc' = "connect"
    /\ attempts' = attempts + 1
    /\ ev' = Event("run", 0, NoOut)
    /\ UNCHANGED <<queue_to_ui, queue_out, rerun, is_running, connected, cur, nOSError,
                   lastEnd, uiVars, nTel, nCmd, pending, nTaken, inv>>

RunnerRun == Run(MaxAttempts)
RunnerRetry == Run(MaxRetries)

\* a handler that leaves rerun as the loop set it
AfterRunNoRerun(how) ==
    /\ rerun' = rerun
    /\ supPc' = IF how = "error" THEN "crashed" ELSE "while"

\* how join_to_router goes on when runner.run ends in way `how`:
\* except OSError: rerun = True; a return falls through to the loop test; any
\* other exception leaves join_to_router
AfterRun(how) ==
    /\ rerun' = IF how = "OSError" THEN TRUE ELSE rerun
    /\ supPc' = IF how = "error" THEN "crashed" ELSE "while"

\* runner.run ends: it raises OSError (connection refused, name resolution, socket
\* error), returns (the connection is gone and the loop was stopped), or raises
\* something else
RunEnds(how) ==
    /\ supPc = "run"
    /\ sessPc \in AwaitPoints
    /\ how = "returned" => sessPc # "connect"
    /\ AfterRun(how)
    /\ sessPc' = "none"
    /\ connected' = FALSE
    /\ lastEnd' = how
    /\ nOSError' = IF how = "OSError" THEN nOSError + 1 ELSE nOSError
    /\ ev' = Event("run_ends", 0,
                   IF how = "returned" THEN NoOut
                   ELSE IF how = "OSError" THEN Raised("OSError")
                   ELSE Raised("Exception"))
    /\ UNCHANGED <<queue_to_ui, queue_out, is_running, cur, attempts, uiVars,
                   nTel, nCmd, pending, nTaken, inv>>

RunRaisesOSError == RunEnds("OSError")
RunReturns == RunEnds("returned")
RunRaisesOther == RunEnds("error")

-----------------------------------------------------------------------------
(* The whole program *)
Next ==
    \/ SetLocation
    \/ SetPid
    \/ ForceLocation
    \/ ForcePid
    \/ ConnectOk
    \/ RegisterOk
    \/ SubscribeOk
    \/ SetupFails
    \/ TransportLost
    \/ Wake
    \/ PassOutgoingPop
    \/ PassOutgoingDispatch
    \/ TelemetryBegin
    \/ OnSimTelemetry
    \/ LoopTest
    \/ RunnerRun
    \/ RunRaisesOSError
    \/ RunReturns
    \/ RunRaisesOther

Spec == Init /\ [][Next]_vars

(* The dispatcher of one session that stays connected, with a producer of any tag *)
NextDispatch ==
    \/ ForceLocation
    \/ ForcePid
    \/ ForceOther
    \/ LoopTest
    \/ RunnerRun
    \/ ConnectOk
    \/ RegisterOk
    \/ SubscribeOk
    \/ Wake
    \/ PassOutgoingPop
    \/ PassOutgoingDispatch

SpecDispatch == Init /\ [][NextDispatch]_vars

(* The retry loop and its sessions while the UI is idle *)
NextSup ==
    \/ LoopTest
    \/ RunnerRetry
    \/ ConnectOk
    \/ RegisterOk
    \/ SubscribeOk
    \/ Wake
    \/ PassOutgoingPop
    \/ TelemetryBegin
    \/ OnSimTelemetry
    \/ RunRaisesOSError
    \/ RunReturns
    \/ RunRaisesOther

SpecSup == Init /\ [][NextSup]_vars

(* The sessions with their dispatcher and telemetry handler, a producer of any tag,
   and the event loop's scheduling: a coroutine that can run is run (the steps of
   pass_outgoing_cmd and of the handler), and the timer of asyncio.sleep(0.1)
   fires however many telemetry events arrive meanwhile *)
NextLive ==
    \/ ForcePid
    \/ ForceOther
    \/ LoopTest
    \/ RunnerRun
    \/ ConnectOk
    \/ RegisterOk
    \/ SubscribeOk
    \/ TransportLost
    \/ Wake
    \/ PassOutgoingPop
    \/ PassOutgoingDispatch
    \/ TelemetryBegin
    \/ OnSimTelemetry
    \/ RunRaisesOSError

SpecLive ==
    /\ Init
    /\ [][NextLive]_vars
    /\ SF_vars(Wake)
    /\ WF_vars(PassOutgoingPop)
    /\ WF_vars(PassOutgoingDispatch)
    /\ WF_vars(OnSimTelemetry)

-----------------------------------------------------------------------------
(* Properties *)

Last(q) == q[Len(q)]
Ids(q) == [i \in 1..Len(q) |-> q[i].id]
UiTakes == {"set_location", "set_pid"}
UiPuts == {"force_location", "force_pid"}

\* C1: each of the two slots holds zero or one value in every reachable state; what
\* a non-empty slot holds is the value of the most recent put, so a put on a full
\* slot has replaced the stored value; a put is enabled whatever the slot holds
\* (it never blocks) and raises nothing.
C1_SlotHoldsAtMostOne ==
    /\ Len(queue_to_ui) <= 1
    /\ Len(queue_out) <= 1
    /\ queue_to_ui # <<>> => Last(queue_to_ui).id = nTel
    /\ queue_out # <<>> => Last(queue_out).id = nCmd
    /\ nCmd < MaxCmds => ENABLED ForcePid /\ ENABLED ForceLocation
    /\ (sessPc = "telemetry" /\ nTel < MaxTel) => ENABLED OnSimTelemetry
    /\ ev.op \in UiPuts \cup {"on_sim_telemetry"} => ev.out.kind # "exception"

\* C1 witness: no session has run, so nothing was taken, and the second command
\* written is the one in the slot: the put on the full slot replaced the first.
C1_Witness ==
    /\ attempts = 0
    /\ nCmd = 2
    /\ ev.op \in UiPuts
    /\ Len(queue_out) = 1
    /\ queue_out[1].id = 2

\* C2: latest wins. Every take that returns a value returns the value of the most
\* recent put on that slot and leaves the slot empty, and puts are numbered
\* upwards; so after puts v1..vn without a take the next take returns vn, and no
\* later take (which again returns the most recent put, of a later number)
\* returns one of v1..vn-1.
C2_LatestWins ==
    [][ /\ nTel' >= nTel
        /\ nCmd' >= nCmd
        /\ (ev'.op \in UiTakes /\ ev'.id # 0) =>
               /\ ev'.id = nTel
               /\ queue_to_ui # <<>> /\ ev'.out.args = Last(queue_to_ui).val
               /\ queue_to_ui' = <<>>
        /\ (ev'.op = "pop" /\ ev'.id # 0) =>
               /\ ev'.id = nCmd
               /\ queue_out # <<>> /\ cur' = <<Last(queue_out)>>
               /\ queue_out' = <<>>
      ]_vars

\* C2 witness: the first take ever made on the command slot returned the second
\* command written: v1, v2 were put with no take in between and the take gave v2.
C2_Witness ==
    /\ ev.op = "pop"
    /\ ev.id = 2
    /\ nTaken.cmd = 1
    /\ cur # <<>> /\ cur[1].id = 2

\* C3: a take on an empty slot returns nothing, raises nothing to its caller and
\* leaves the slot empty, and it is enabled (does not block): for the pop of
\* pass_outgoing_cmd on queue_out, after which the call returns and the loop of
\* onJoin sleeps, and for the pops of set_location and set_pid on queue_to_ui.
C3_TakeOnEmpty ==
    /\ [](supPc = "run" /\ sessPc = "pop" => ENABLED PassOutgoingPop)
    /\ [](ENABLED SetLocation /\ ENABLED SetPid)
    /\ [][ /\ (ev'.op = "pop" /\ queue_out = <<>>) =>
                  /\ queue_out' = <<>>
                  /\ cur' = <<>>
                  /\ ev'.id = 0
                  /\ ev'.out = NoOut
                  /\ sessPc' = "sleep"
                  /\ supPc' = "run"
                  /\ inv'.done /\ inv'.pubs = inv.pubs
           /\ (ev'.op \in UiTakes /\ queue_to_ui = <<>>) =>
                  /\ queue_to_ui' = <<>>
                  /\ ev'.id = 0
                  /\ ev'.out = NoOut
           /\ ev'.op = "pop" => sessPc = "pop"
        ]_vars

\* C3 witness: pass_outgoing_cmd popped the empty queue_out as its first pop and
\* returned.
C3_Witness ==
    /\ ev.op = "pop"
    /\ ev.id = 0
    /\ inv.done /\ inv.pops = 1 /\ inv.entry = <<>>
    /\ sessPc = "sleep"
    /\ queue_out = <<>>

\* C4: on_sim_telemetry of an event that lacks any of the three keys makes no put:
\* queue_to_ui (empty or the previous sample) is what it was before the call.
C4_MalformedKeepsSlot ==
    [][ \A m \in TelMsgs :
          (on_sim_telemetry(m) /\ ~(TelKeys \subseteq DOMAIN m)) =>
              /\ queue_to_ui' = queue_to_ui
              /\ nTel' = nTel
              /\ ev'.out.kind # "exception"
      ]_vars

\* C4 witness: an event with a missing key has been handled while the slot held a
\* sample, and the sample is still there.
C4_Witness ==
    /\ ev.op = "on_sim_telemetry"
    /\ ev.out = Log("error")
    /\ queue_to_ui # <<>>

\* C5: on_sim_telemetry of an event with the three fields a, b, c leaves exactly
\* (a, b, c) in queue_to_ui, whatever it held; a take returns exactly what the
\* slot holds; and no step other than a put or a take changes the slot. So the
\* take that follows with no put or take in between returns (a, b, c).
C5_WellFormedRoundTrip ==
    [][ /\ \A m \in TelMsgs :
             (on_sim_telemetry(m) /\ TelKeys \subseteq DOMAIN m) =>
                 /\ Len(queue_to_ui') = 1
                 /\ queue_to_ui'[1].val =
                        <<m["latitude-deg"], m["longitude-deg"], m["heading-deg"]>>
        /\ (ev'.op \in UiTakes /\ queue_to_ui # <<>>) =>
                 ev'.out.args = Last(queue_to_ui).val
        /\ ev'.op \notin UiTakes \cup {"on_sim_telemetry"} =>
                 queue_to_ui' = queue_to_ui
      ]_vars

\* C5 witness: the second sample, (3, 1, 2), was put on the slot that held the
\* first, and set_location took it and emitted it.
C5_Witness ==
    /\ ev.op = "set_location"
    /\ ev.id = 2
    /\ nTaken.tel = 1
    /\ ev.out = Signal("locationUpdate", <<3, 1, 2>>)

Known == {"pos", "pid"}
Returned == ev.op = "pop" /\ ev.id = 0

C8_ExactlyOnePerInvocation ==
    inv.done => /\ inv.taken = (IF inv.entry = <<>> THEN 0 ELSE 1)
                /\ inv.disp = inv.taken

\* C8 amended: a call of pass_outgoing_cmd pops and processes commands until a
\* pop finds queue_out empty: none when its first pop finds it empty, exactly one
\* when it is non-empty and the UI thread writes nothing during the call, and at
\* most one more for each command the UI thread writes during the call.
C8_DrainsUntilEmpty ==
    /\ inv.taken <= 1 + inv.writes
    /\ (inv.pops > 0 /\ inv.entry = <<>>) => inv.done /\ inv.taken = 0
    /\ (inv.pops > 0 /\ inv.entry # <<>>) => inv.taken >= 1
    /\ (inv.done /\ inv.pops > 0) =>
          /\ inv.disp = inv.taken
          /\ inv.pops = inv.taken + 1
          /\ (inv.entry # <<>> /\ inv.writes = 0) => inv.taken = 1
    /\ Returned => inv.done /\ queue_out = <<>>

\* C8 witness: a call found a command, the UI thread wrote another one while it
\* ran, and the call took and processed both before it returned.
C8_Witness ==
    /\ Returned
    /\ inv.done
    /\ inv.entry # <<>>
    /\ inv.writes = 1
    /\ inv.taken = 2 /\ inv.disp = 2

\* C9: as long as every run of runner.run that ended raised OSError, join_to_router
\* has neither returned nor let an exception out, it is at the loop test only with
\* rerun set, it has called runner.run once per failure plus once for the run in
\* progress, and a session that is Active is the one of attempt n + 1 after n
\* failures.
C9_RetriesUntilSuccess ==
    lastEnd \in {"none", "OSError"} =>
        /\ supPc \notin {"done", "crashed"}
        /\ supPc = "while" => rerun
        /\ attempts = nOSError + (IF supPc = "run" THEN 1 ELSE 0)
        /\ SessionState = "Active" => attempts = nOSError + 1

\* C9 witness: three runs raised OSError and the session of the fourth is Active.
C9_Witness ==
    /\ nOSError = 3
    /\ attempts = 4
    /\ lastEnd = "OSError"
    /\ SessionState = "Active"

\* C10 as stated: after a session has ended, by an OSError or by runner.run
\* returning, join_to_router goes on to a new attempt: at the loop test rerun is
\* set, and the loop is never left.
C10_RestartsAfterTermination ==
    /\ supPc # "done"
    /\ (SessionState = "Terminated" /\ supPc = "while"
          /\ lastEnd \in {"OSError", "returned"}) => rerun

\* the frame of join_to_router and of the session's life cycle
Lifecycle == <<supPc, rerun, attempts, nOSError, lastEnd, is_running, connected>>

\* C11: handling a telemetry event that lacks a key (the call of on_sim_telemetry
\* that makes no put), or a command whose tag is neither "pos" nor "pid", ends in
\* a log line and not in an exception, leaves
\* join_to_router and the session where they are (an Active session stays Active,
\* the loop of onJoin goes on) and starts no new attempt; runner.run is called
\* again only after a run that raised OSError, so the number of attempts is at
\* most the number of such failures plus one.
C11_NonTransportFailuresSwallowed ==
    /\ [][ /\ (ev'.op = "on_sim_telemetry" /\ queue_to_ui' = queue_to_ui) =>
                    /\ ev'.out = Log("error")
                    /\ Lifecycle' = Lifecycle
                    /\ SessionState = "Active" /\ SessionState' = "Active"
                    /\ sessPc' = "sleep"
           /\ (ev'.op = "dispatch" /\ cur # <<>> /\ cur[1].cmd \notin Known) =>
                    /\ ev'.out.kind = "log"
                    /\ Lifecycle' = Lifecycle
                    /\ SessionState = "Active" => SessionState' = "Active"
                    /\ sessPc' = "pop"
           /\ attempts' # attempts =>
                    /\ attempts' = attempts + 1
                    /\ nOSError = attempts
                    /\ attempts > 0 => lastEnd = "OSError"
         ]_vars
    /\ [](attempts <= nOSError + 1)

\* C11 witness: in the second attempt, made after an OSError, a command with an
\* unknown tag has just been put through with a warning; the session is Active and
\* no further attempt was made.
C11_Witness ==
    /\ ev.op = "dispatch"
    /\ ev.out.kind = "log" /\ ev.out.name = "warning"
    /\ SessionState = "Active"
    /\ attempts = 2 /\ nOSError = 1

\* the operations of the main thread: join_to_router, runner.run, MapComponent
CoreOps == {"while", "run", "run_ends", "__init__", "register", "subscribe",
            "setup_fails", "connection_lost", "wake", "pop", "dispatch", "event",
            "on_sim_telemetry"}

\* C12: no step of the main thread (join_to_router, the session's join, loop,
\* dispatcher and telemetry handler, the end of a run and the next attempt) appends
\* to queue_out or pops queue_to_ui: such a step leaves queue_out as it is or, in
\* the pop of pass_outgoing_cmd only, removes its element; it leaves queue_to_ui
\* as it is or, in on_sim_telemetry only, appends a new sample to it.
C12_OwnershipAsymmetry ==
    [][ ev'.op \in CoreOps =>
          /\ nCmd' = nCmd
          /\ \/ Ids(queue_out') = Ids(queue_out)
             \/ /\ ev'.op = "pop"
                /\ queue_out # <<>> /\ queue_out' = <<>>
                /\ cur' = <<Last(queue_out)>>
          /\ nTaken'.tel = nTaken.tel
          /\ \/ queue_to_ui' = queue_to_ui
             \/ /\ ev'.op = "on_sim_telemetry"
                /\ nTel' = nTel + 1
                /\ Ids(queue_to_ui') = <<nTel + 1>>
      ]_vars

\* C12 witness: the session has popped a command from queue_out, and its handler
\* has just appended a sample to queue_to_ui over one that the UI never took.
C12_Witness ==
    /\ nTaken.cmd >= 1
    /\ ev.op = "on_sim_telemetry"
    /\ ev.id = 2
    /\ nTaken.tel = 0
    /\ Ids(queue_to_ui) = <<2>>

\* the session is in its setup: onJoin has not got past the two awaits
InSetup == supPc = "run" /\ sessPc \in {"register", "subscribe", "failed"} /\ ~is_running

C14_NoTakeAfterTerminated ==
    SessionState = "Terminated" =>
        /\ ev.op # "pop"
        /\ cur = <<>>
        /\ ev.out.kind # "publish"

\* a call of on_sim_telemetry / of pass_outgoing_cmd has started and not ended
InTelemetry == supPc = "run" /\ sessPc = "telemetry"
InDispatcher == supPc = "run" /\ sessPc \in {"pop", "dispatch"}

\* C15: on_sim_telemetry and pass_outgoing_cmd are never in progress together:
\* while the handler runs, the last call of pass_outgoing_cmd has returned and
\* holds no command. Neither has an await inside, so the step of the main thread
\* that follows a step of the handler's call is the end of that call, and the one
\* that follows a step inside pass_outgoing_cmd is its next pop or dispatch; only
\* steps of the UI thread come in between.
C15_IngestorDispatcherExclusive ==
    /\ [](InTelemetry => inv.done /\ cur = <<>>)
    /\ [](~(InTelemetry /\ InDispatcher))
    /\ [][ /\ (InTelemetry /\ ev'.op \in CoreOps) =>
                  ev'.op = "on_sim_telemetry" /\ sessPc' = "sleep"
           /\ (InDispatcher /\ ev'.op \in CoreOps) =>
                  ev'.op \in {"pop", "dispatch"}
           /\ ev'.op = "event" => inv.done /\ sessPc = "sleep"
           /\ (ev'.op = "wake" \/ ev'.op = "subscribe") => ~InTelemetry
         ]_vars

\* C15 witness: the UI thread has written a command while the handler of a
\* telemetry event is running; the dispatcher is not running and the command is
\* in queue_out.
C15_Witness ==
    /\ InTelemetry
    /\ ev.op = "force_pid"
    /\ inv.done
    /\ queue_out # <<>>

\* C16: a command is taken and published at most once, and what is published is a
\* command the UI thread wrote. Commands are numbered as they are written. A new
\* number enters queue_out only by a write of the UI thread; a pop removes the
\* command it returns from queue_out, so that number is never in queue_out again
\* and no later pop returns it; the command that pass_outgoing_cmd holds is older
\* than the one in queue_out; a publish is of the command held, with its
\* arguments in the order written, after which it is held no more; and no session
\* starts or ends with a command held.
C16_ConsumedAtMostOnce ==
    /\ [](\A i \in 1..Len(queue_out) : queue_out[i].id \in 1..nCmd)
    /\ []((cur # <<>> /\ queue_out # <<>>) => cur[1].id < Last(queue_out).id)
    /\ [](cur # <<>> => cur[1].id \in 1..nCmd /\ InDispatcher)
    /\ [][ /\ Ids(queue_out') # Ids(queue_out) =>
                  \/ ev'.op \in UiPuts /\ nCmd' = nCmd + 1
                                       /\ Ids(queue_out') = <<nCmd + 1>>
                  \/ ev'.op = "pop" /\ queue_out' = <<>> /\ nCmd' = nCmd
                                    /\ cur' = <<Last(queue_out)>>
           /\ (ev'.op = "pop" /\ ev'.id # 0) =>
                  /\ queue_out # <<>> /\ ev'.id = Last(queue_out).id
                  /\ queue_out' = <<>>
                  /\ nTaken'.cmd = nTaken.cmd + 1
           /\ Ids(cur') # Ids(cur) =>
                  \/ ev'.op = "pop" /\ cur = <<>>
                  \/ ev'.op = "dispatch" /\ cur' = <<>>
           /\ ev'.out.kind = "publish" =>
                  /\ ev'.op = "dispatch"
                  /\ cur # <<>> /\ cur[1].cmd \in Known
                  /\ ev'.id = cur[1].id
                  /\ ev'.out.args = cur[1].args
                  /\ cur' = <<>>
           /\ ev'.op \in {"run", "run_ends", "__init__"} => cur = <<>> /\ cur' = <<>>
         ]_vars
    /\ [](nTaken.cmd <= nCmd)

\* C16 witness: two commands were written; the first was taken by the first
\* session, the second has just been taken and published by the second session.
C16_Witness ==
    /\ ev.op = "dispatch"
    /\ ev.out.kind = "publish"
    /\ ev.id = 2
    /\ nTaken.cmd = 2
    /\ attempts = 2

\* the steps in which a session fails, ends or is set up again
LifecycleOps == {"connection_lost", "setup_fails", "run_ends", "while", "run",
                 "__init__", "register", "subscribe"}

\* C17 as stated: a transport failure, the end of a session and a new attempt
\* leave both deques, the Locator and the PIDManager as they are; and a command
\* written while no session was Active stays in queue_out until a later write
\* replaces it or a session becomes Active: no pop takes it before.
C17_FailuresStayInSession ==
    [][ /\ ev'.op \in LifecycleOps =>
              /\ Ids(queue_out') = Ids(queue_out)
              /\ queue_to_ui' = queue_to_ui
              /\ uiVars' = uiVars
        /\ pending # 0 =>
              /\ Ids(queue_out) = <<pending>>
              /\ Ids(queue_out') # Ids(queue_out) => ev'.op \in UiPuts
      ]_vars

\* C18 as stated: every sample that a slot of the UI thread pops from queue_to_ui
\* is emitted as locationUpdate; none is emitted as another signal or dropped.
C18_TakenSamplesAreLocationUpdates ==
    (ev.op \in UiTakes /\ ev.id # 0) =>
        /\ ev.out.kind = "signal"
        /\ ev.out.name = "locationUpdate"

\* command number k, with a tag that pass_outgoing_cmd publishes, is in queue_out
Waiting(k) == queue_out # <<>> /\ Last(queue_out).id = k /\ Last(queue_out).cmd \in Known

\* command number k has just been published and queue_out is empty
Published(k) ==
    /\ ev.op = "dispatch" /\ ev.id = k
    /\ ev.out.kind = "publish"
    /\ queue_out = <<>>

\* C19: when a "pos" or "pid" command is in queue_out and the session is Active,
\* then, with the event loop running the coroutines that can run, the command is
\* published and queue_out is empty, unless the session stops being Active or the
\* UI thread writes another command before.
C19_WaitingCommandIsPublished ==
    \A k \in 1..MaxCmds :
        (Waiting(k) /\ SessionState = "Active")
            ~> (Published(k) \/ SessionState # "Active" \/ nCmd > k)

\* C19 witness: a telemetry event was handled, and the last command written, a
\* "pid" command, has just been published by a session that is Active; queue_out
\* is empty.
C19_Witness ==
    /\ Published(nCmd)
    /\ ev.out.name = "map.pid"
    /\ SessionState = "Active"
    /\ nTel >= 1
    /\ nCmd = MaxCmds

====
